---- MODULE Spec2Model ----
(***************************************************************************)
(* pyhdl: fixed-width modular Values over a Shape, Signals with edge       *)
(* detection, and the cooperative tick Simulator.                          *)
(*                                                                         *)
(* Python exceptions are modelled as results: Ok(v) carries the returned   *)
(* value, Raise(e) the name of the exception that left the call.  Python's *)
(* None is the record None; Some(n) wraps a value that is present.         *)
(***************************************************************************)
EXTENDS Integers, Sequences, FiniteSets, TLC

\* ------------------------------------------------------------------ bounds
\* integers offered to Shape.from_range and to Value(...) lie in -MaxInt..MaxInt
MaxInt == 9
\* widths of the Values that are sliced lie in 1..MaxBits
MaxBits == 3
\* integers assigned to a slice lie in -MaxAssign..MaxAssign
MaxAssign == 4
\* initial value of the Signal whose edges are evaluated lies in 0..MaxSignalInit
MaxSignalInit == 5
\* integers written to that Signal lie in 0..MaxWrite
MaxWrite == 5
\* run(duration) is called with duration in 0..MaxDuration, or without one
MaxDuration == 10
\* a run without duration is followed for MaxTime ticks
MaxTime == 4
\* the suspension counts of delay(n), clock(signal, n) and xtal(low, high)
MaxDelay == 2

VARIABLES
    \* ---- Simulator (src/pyhdl/simulator.py)
    iterables,   \* Simulator.iterables: the active generators, by id
    time,        \* Simulator.time
    gens,        \* the state of every generator, by id
    pc,          \* where Simulator.run is
    duration,    \* run's argument
    idx,         \* position of the for loops of next() and run()
    new_list,    \* next(): the survivors
    events,      \* next(): the collected events
    sig,         \* the Signal the tasks share
    hist,        \* history of the run: resumes, captures, triggers, reads
    \* ---- Signal and EdgeCond (src/pyhdl/signal.py)
    edge,        \* the last edge evaluation and what the spec expects of it
    \* ---- Value (src/pyhdl/value.py)
    val,         \* the Value under test
    op,          \* the last slice operation on it and its outcome
    \* ---- Shape (src/pyhdl/value.py)
    arg,         \* the integers handed to from_range / Value(...)
    res          \* what the call returned

simVars == <<iterables, time, gens, pc, duration, idx, new_list, events, hist>>
sigVars == <<sig, edge>>
valVars == <<val, op>>
shapeVars == <<arg, res>>
vars == <<simVars, sigVars, valVars, shapeVars>>

\* ------------------------------------------------------- Python scaffolding
None == [isNone |-> TRUE, n |-> 0]
Some(x) == [isNone |-> FALSE, n |-> x]

Ok(v) == [exc |-> "none", val |-> v]
Raise(e) == [exc |-> e]
IsOk(r) == r.exc = "none"

Pow2(n) == 2 ^ n

\* builtins min / max over an iterable of integers (value.py:61-63)
SetMin(S) == CHOOSE x \in S : \A y \in S : x <= y
SetMax(S) == CHOOSE x \in S : \A y \in S : x >= y
Max2(a, b) == IF a >= b THEN a ELSE b

\* math.floor(math.log2(x)) for an integer x >= 1.  The double math.log2
\* returns has the exact integer part for every x below 2^31.
RECURSIVE math_floor_log2(_)
math_floor_log2(x) == IF x < 2 THEN 0 ELSE 1 + math_floor_log2(x \div 2)

\* math.ceil(math.log2(x)) for an integer x >= 1
math_ceil_log2(x) == IF x = 1 THEN 0 ELSE math_floor_log2(x - 1) + 1

\* Python's a & b for b >= 0 (a may be negative: infinite two's complement)
RECURSIVE bit_and(_, _)
bit_and(a, b) ==
    IF b = 0 THEN 0
    ELSE (a % 2) * (b % 2) + 2 * bit_and(a \div 2, b \div 2)

\* Python's a | b for a, b >= 0
RECURSIVE bit_or(_, _)
bit_or(a, b) ==
    IF a = 0 /\ b = 0 THEN 0
    ELSE Max2(a % 2, b % 2) + 2 * bit_or(a \div 2, b \div 2)

\* Python's a ^ b for a, b >= 0
RECURSIVE bit_xor(_, _)
bit_xor(a, b) ==
    IF a = 0 /\ b = 0 THEN 0
    ELSE ((a + b) % 2) + 2 * bit_xor(a \div 2, b \div 2)

\* Python's ~a
bit_not(a) == -a - 1

\* -------------------------------------------------------------------- Shape
Shape(signed, n_bits) == [signed |-> signed, n_bits |-> n_bits]
Signed(n_bit) == Shape(TRUE, n_bit)
Unsigned(n_bit) == Shape(FALSE, n_bit)

\* Shape.__post_init__: modulo, min, max
modulo(shape) == Pow2(shape.n_bits)
shape_min(shape) ==
    IF ~shape.signed THEN 0 ELSE -Pow2(shape.n_bits - 1)
shape_max(shape) ==
    IF ~shape.signed THEN Pow2(shape.n_bits) - 1 ELSE Pow2(shape.n_bits - 1) - 1

\* Shape.__contains__: item in self.range
contains(shape, item) == shape_min(shape) <= item /\ item <= shape_max(shape)

\* from_range_unsigned rounding the logarithm up instead of down
from_range_unsigned_ceil(maximal) ==
    IF maximal = 0 \/ maximal = 1 THEN Ok(Unsigned(1))
    ELSE Ok(Unsigned(math_ceil_log2(maximal) + 1))

\* the all-positive branch of from_range (value.py:64-69)
from_range_unsigned(maximal) ==
    IF maximal = 0 \/ maximal = 1 THEN Ok(Unsigned(1))
    ELSE Ok(Unsigned(math_floor_log2(maximal) + 1))

\* the branch of from_range for minimal == -1 (value.py:71-74);
\* math.log2(0) raises ValueError("math domain error")
from_range_minus_one(maximal) ==
    IF maximal = 0 \/ maximal = 1 THEN Ok(Signed(2))
    ELSE IF maximal + 1 <= 0 THEN Raise("ValueError")
    ELSE Ok(Signed(math_ceil_log2(maximal + 1) + 1))

\* the general negative branch of from_range (value.py:76-80)
from_range_signed(minimal, maximal) ==
    LET n_bits_neg == math_ceil_log2(-minimal) + 1
        n_bits_pos == math_ceil_log2(maximal + 1) + 1
    IN  IF maximal <= 1 THEN Ok(Signed(n_bits_neg))
        ELSE Ok(Signed(Max2(n_bits_neg, n_bits_pos)))

\* Shape.from_range over a non-empty finite set of integers
from_range(iterable) ==
    LET minimal == SetMin(iterable)
        maximal == SetMax(iterable)
    IN  IF minimal >= 0 THEN from_range_unsigned(maximal)
        ELSE IF minimal = -1 THEN from_range_minus_one(maximal)
        ELSE from_range_signed(minimal, maximal)

\* Shape.from_n(*args)
from_n(args) == from_range(args)

\* -------------------------------------------------------------------- Value
\* Value.__init__(value: int, shape): shape is None or Some(Shape)
Value(value, shape) ==
    LET sh == IF shape.isNone THEN from_n({value}) ELSE Ok(shape.n)
    IN  IF ~IsOk(sh) THEN sh
        ELSE Ok([_value |-> value % modulo(sh.val), shape |-> sh.val])

\* Value.value: the signed interpretation
value_of(self) ==
    IF self._value > shape_max(self.shape)
    THEN self._value - modulo(self.shape)
    ELSE self._value

\* slice(start, stop) as written v[start:stop]; an int key k is slice(k, k)
\* (value.py:223-224)
slice(start, stop) == [start |-> start, stop |-> stop]
int_key(k) == slice(Some(k), Some(k))

\* the bound checks of Value.parse_slice (value.py:235-240)
parse_slice_check(n_bits, start, stop) ==
    IF start > stop THEN "ValueError"
    ELSE IF stop > n_bits \/ start > n_bits THEN "OverflowError"
    ELSE IF start < 0 THEN "OverflowError"
    ELSE "none"

\* Value.parse_slice: <<start, stop + 1, step>> of the closed interval [stop:start]
parse_slice(self, item) ==
    LET stop == IF item.start.isNone THEN self.shape.n_bits - 1 ELSE item.start.n
        start == IF item.stop.isNone THEN 0 ELSE item.stop.n
        step == 1
        exc == parse_slice_check(self.shape.n_bits, start, stop)
    IN  IF exc # "none" THEN Raise(exc) ELSE Ok(<<start, stop + 1, step>>)

\* the shifting and masking loop of Value.__getitem__ (value.py:252-257)
RECURSIVE getitem_loop(_, _, _, _, _, _, _)
getitem_loop(i, stop, step, n_bits, value, mask, result_value) ==
    IF i >= stop \/ i >= n_bits THEN result_value
    ELSE getitem_loop(i + step, stop, step, n_bits, value \div Pow2(step), mask * 2,
                      bit_or(result_value, bit_and(value, 1) * mask))

\* Value.__getitem__: always an unsigned Value
__getitem__(self, item) ==
    LET ps == parse_slice(self, item)
    IN  IF ~IsOk(ps) THEN ps
        ELSE LET start == ps.val[1]
                 stop == ps.val[2]
                 step == ps.val[3]
                 bit_width == (stop - start) \div step
                 result_value == getitem_loop(start, stop, step, self.shape.n_bits,
                                              self._value \div Pow2(start), 1, 0)
             IN  Value(result_value, Some(Unsigned(bit_width)))

\* the assigned object of v[key] = value: a bare int or a Value
IntArg(n) == [isInt |-> TRUE, n |-> n]
ValArg(v) == [isInt |-> FALSE, v |-> v]

\* the mask-and-merge of Value.__setitem__ (value.py:278-291)
setitem_merge(self, shape, value, start, stop, step) ==
    LET target_bit_width == (stop - start) \div step
        truncated == IF shape.n_bits > target_bit_width
                     THEN value % Pow2(target_bit_width) ELSE value
        shifted == truncated * Pow2(start)
        tagged == (Pow2(target_bit_width) - 1) * Pow2(start)
        mask == bit_xor(tagged, modulo(self.shape) - 1)
    IN  [self EXCEPT !._value = bit_or(bit_and(value_of(self), mask), shifted)]

\* Value.__setitem__: the Value after the assignment, or the exception
__setitem__(self, key, value) ==
    LET conv == IF value.isInt THEN Value(value.n, None) ELSE Ok(value.v)
    IN  IF ~IsOk(conv) THEN conv
        ELSE LET ps == parse_slice(self, key)
             IN  IF ~IsOk(ps) THEN ps
                 ELSE Ok(setitem_merge(self, conv.val.shape, conv.val._value,
                                       ps.val[1], ps.val[2], ps.val[3]))

\* Value.set_value(value): value is a bare int or a Value (its raw residue)
Value_set_value(self, value) ==
    LET v == IF value.isInt THEN value.n ELSE value.v._value
    IN  [self EXCEPT !._value = v % modulo(self.shape)]

\* Value.set_bit(key, value): the Value after the call, or the exception
set_bit(self, key, value) ==
    LET k == IF key < 0 THEN key + self.shape.n_bits ELSE key
        mask == Pow2(k)
        cleared == bit_and(bit_not(mask), self._value)
        bit_value == bit_and(value * Pow2(k), mask)
    IN  IF k < 0 \/ k >= self.shape.n_bits THEN Raise("IndexError")
        ELSE Ok([self EXCEPT !._value = bit_or(cleared, bit_value)])

\* Value.__bool__
Value_bool(self) == self._value = 1

\* Value(b) for a Python bool b: True is 1, False is 0
Value_of_bool(b) == Value(IF b THEN 1 ELSE 0, None)

\* Value.binary_op(other, func) for a comparison against a bare int:
\* Value(func(self.value, other))
Value_gt(self, other) == Value_of_bool(value_of(self) > other)
Value_lt(self, other) == Value_of_bool(value_of(self) < other)
Value_ne(self, other) == Value_of_bool(value_of(self) # other)

\* Value.__add__ through binary_op_raw: on the raw residues, shape inferred
Value_add(self, other) ==
    LET o == IF other.isInt THEN other.n ELSE other.v._value
    IN  Value(self._value + o, None)

\* Value.__neg__: modulo - raw, under the shape of self
Value_neg(self) == Value(modulo(self.shape) - self._value, Some(self.shape))

\* Value.__sub__ with the negation left out: self + other
Value_sub_no_neg(self, other) == Value_add(self, ValArg(other))

\* Value.__sub__: self + (-other), other a Value
Value_sub(self, other) ==
    LET n == Value_neg(other)
    IN  IF ~IsOk(n) THEN n ELSE Value_add(self, ValArg(n.val))

\* Value.__mul__ through binary_op_raw: on the raw residues, shape inferred
Value_mul(self, other) ==
    LET o == IF other.isInt THEN other.n ELSE other.v._value
    IN  Value(self._value * o, None)

\* Value.as_shape(shape): the raw residue of self under another shape
as_shape(self, shape) == Value(self._value, Some(shape))

\* r.as_shape(shape) for the outcome r of an operation: an exception passes on
then_as_shape(r, shape) == IF ~IsOk(r) THEN r ELSE as_shape(r.val, shape)

\* the shifting loop of Value.rev (value.py:263-266)
RECURSIVE rev_loop(_, _, _, _)
rev_loop(i, n_bits, value, result) ==
    IF i >= n_bits THEN result
    ELSE rev_loop(i + 1, n_bits, value \div 2, bit_or(result * 2, bit_and(value, 1)))

\* Value.rev: the loop runs on the signed interpretation, and the result is
\* Value(result) with no shape given, so its shape is inferred from the result
rev(self) == Value(rev_loop(0, self.shape.n_bits, value_of(self), 0), None)

\* Value.__invert__: ~raw, under the shape of self
Value_invert(self) == Value(bit_not(self._value), Some(self.shape))

\* ------------------------------------------------------------------- Signal
\* Signal.__init__(value, n_bits, signed): n_bits is None or Some(n)
Signal(value, n_bits, signed) ==
    LET extra == IF signed THEN -1 ELSE 0
        shape == IF n_bits.isNone THEN from_n({value, extra})
                 ELSE Ok(Shape(signed, n_bits.n))
    IN  IF ~IsOk(shape) THEN shape
        ELSE Ok([_value |-> Value(value, Some(shape.val)).val, prev |-> IntArg(value)])

\* Signal.set_value: prev is the slice [:] of the old Value, then the write
Signal_set_value(self, value) ==
    [_value |-> Value_set_value(self._value, value),
     prev |-> ValArg(__getitem__(self._value, slice(None, None)).val)]

\* Signal.get_value
Signal_get_value(self) == value_of(self._value)

\* Signal.__invert__
Signal_invert(self) == Value_invert(self._value).val

\* -other for the operand of Signal.__sub__: an int or a Value
negated(other) ==
    IF other.isInt THEN IntArg(-other.n) ELSE ValArg(Value_neg(other.v).val)

\* Signal.__add__ through Signal.binary_op
Signal_add(self, other) == Value_add(self._value, other)

\* Signal.__sub__: self + (-other)
Signal_sub(self, other) == Signal_add(self, negated(other))

\* the match of EdgeCond.__call__ on the edge type (signal.py:23-28)
edge_match(edge_type, diff) ==
    IF edge_type = "POS" THEN Value_gt(diff, 0)
    ELSE IF edge_type = "NEG" THEN Value_lt(diff, 0)
    ELSE Value_ne(diff, 0)

\* EdgeCond.__call__: the signal afterwards and the truth of what is returned
EdgeCond_call(signal, edge_type) ==
    LET diff == Signal_sub(signal, signal.prev)
    IN  IF ~IsOk(diff) THEN [exc |-> diff.exc, signal |-> signal, result |-> FALSE]
        ELSE [exc |-> "none",
              signal |-> [signal EXCEPT !.prev = ValArg(signal._value)],
              result |-> Value_bool(edge_match(edge_type, diff.val).val)]

\* ---------------------------------------------------------------- Simulator
\* What a generator yields is a tree: a tuple or list [t |-> "seq"] of items,
\* a BaseEvent [t |-> "ev"] whose trigger() may write the shared Signal, or
\* any other object [t |-> "obj"] (None, an int, ...).  What is registered
\* with the Simulator is such a tree of generators [t |-> "gen"].
Seq_(items) == [t |-> "seq", items |-> items]
Ev(id, write) == [t |-> "ev", id |-> id, write |-> write]
Obj(id) == [t |-> "obj", id |-> id]
Gen(id) == [t |-> "gen", id |-> id]
NoneObj == Obj(0)

\* isinstance(p, cls) for the guards the Simulator passes to flatten;
\* "any" is flatten's default guard lambda _: True
guard_holds(guard, p) ==
    \/ guard = "any"
    \/ guard = "BaseEvent" /\ p.t = "ev"
    \/ guard = "Iterable" /\ p.t = "gen"

\* flatten collecting each tuple's items from the right
RECURSIVE flatten_right_to_left(_, _)
flatten_right_to_left(args, guard) ==
    IF args = <<>> THEN <<>>
    ELSE LET p == Head(args)
         IN  flatten_right_to_left(Tail(args), guard) \o
             (IF p.t = "seq" THEN flatten_right_to_left(p.items, guard)
              ELSE IF guard_holds(guard, p) THEN <<p>> ELSE <<>>)

\* flatten(*args, guard): depth first, left to right
RECURSIVE flatten(_, _)
flatten(args, guard) ==
    IF args = <<>> THEN <<>>
    ELSE LET p == Head(args)
         IN  (IF p.t = "seq" THEN flatten(p.items, guard)
              ELSE IF guard_holds(guard, p) THEN <<p>> ELSE <<>>)
             \o flatten(Tail(args), guard)

\* delay(n) as the outputs of a generator: n times None
delay(n) == [k \in 1 .. n |-> NoneObj]

\* the generator clock(signal, n) of tests/test_simulator.py
clock(n) == [kind |-> "clock", n |-> n, i |-> 0, acts |-> 0]
\* the generator do_xtal of xtal(signal, low, high), phase 0
xtal(low, high) == [kind |-> "xtal", low |-> low, high |-> high, level |-> "init", i |-> 0]
\* a generator that yields the given outputs one by one and then returns
script(outs) == [kind |-> "script", outs |-> outs, i |-> 1]

\* next(clock): n suspensions, then log signal.value and set signal.value = ~signal
resume_clock(g, signal) ==
    IF g.i < g.n
    THEN [gen |-> [g EXCEPT !.i = @ + 1], signal |-> signal, stop |-> FALSE,
          results |-> NoneObj, read |-> FALSE, seen |-> 0, wrote |-> FALSE]
    ELSE [gen |-> [g EXCEPT !.i = 1, !.acts = @ + 1],
          signal |-> Signal_set_value(signal, ValArg(Signal_invert(signal))),
          stop |-> FALSE, results |-> NoneObj,
          read |-> TRUE, seen |-> Signal_get_value(signal), wrote |-> TRUE]

\* next(do_xtal): signal.value = 0, low suspensions, signal.value = 1, high suspensions
resume_xtal(g, signal) ==
    LET quiet == [gen |-> [g EXCEPT !.i = @ + 1], signal |-> signal, stop |-> FALSE,
                  results |-> NoneObj, read |-> FALSE, seen |-> 0, wrote |-> FALSE]
        to(level, v) == [gen |-> [g EXCEPT !.level = level, !.i = 1],
                         signal |-> Signal_set_value(signal, IntArg(v)), stop |-> FALSE,
                         results |-> NoneObj, read |-> FALSE, seen |-> 0, wrote |-> TRUE]
    IN  IF g.level = "init" THEN to("low", 0)
        ELSE IF g.level = "low" THEN (IF g.i < g.low THEN quiet ELSE to("high", 1))
        ELSE (IF g.i < g.high THEN quiet ELSE to("low", 0))

\* next(script): the next output, or StopIteration
resume_script(g, signal) ==
    IF g.i <= Len(g.outs)
    THEN [gen |-> [g EXCEPT !.i = @ + 1], signal |-> signal, stop |-> FALSE,
          results |-> g.outs[g.i], read |-> FALSE, seen |-> 0, wrote |-> FALSE]
    ELSE [gen |-> g, signal |-> signal, stop |-> TRUE,
          results |-> NoneObj, read |-> FALSE, seen |-> 0, wrote |-> FALSE]

\* Simulator.next keeping a generator that raised StopIteration
new_list_append_always(nl, iterable, stop) == Append(nl, iterable)

\* new_list.append(iterable), skipped by the continue of except StopIteration
new_list_append(nl, iterable, stop) == IF stop THEN nl ELSE Append(nl, iterable)

\* next(iterable)
resume(g, signal) ==
    IF g.kind = "clock" THEN resume_clock(g, signal)
    ELSE IF g.kind = "xtal" THEN resume_xtal(g, signal)
    ELSE resume_script(g, signal)

\* event.trigger(): the Signal afterwards
trigger(event, signal) ==
    IF event.t = "ev" /\ ~event.write.isNone
    THEN Signal_set_value(signal, IntArg(event.write.n))
    ELSE signal

\* the Signal after triggering the given events in order
RECURSIVE trigger_all(_, _)
trigger_all(evs, signal) ==
    IF evs = <<>> THEN signal
    ELSE trigger_all(Tail(evs), trigger(Head(evs), signal))

\* a next() that triggers a generator's events as soon as it has yielded them
signal_after_resume_eager(signal, r) ==
    IF r.stop THEN r.signal
    ELSE trigger_all(flatten(<<r.results>>, "BaseEvent"), r.signal)

\* the shared Signal after next(iterable) in Simulator.next: as the generator
\* left it; nothing is triggered here
signal_after_resume(signal, r) == r.signal

\* events.extend(flatten(results, guard=isinstance BaseEvent)) (simulator.py:48)
events_extend(evs, results) == evs \o flatten(<<results>>, "BaseEvent")

\* flatten(events) in the for loop of run (simulator.py:67)
flatten_events(evs) == flatten(<<Seq_(evs)>>, "any")

\* run's loop test that lets one round too many through
loop_done_late(d, t) == ~d.isNone /\ t > d.n

\* the break of run's loop: duration is not None and self.time >= duration
loop_done(d, t) == ~d.isNone /\ t >= d.n

\* ------------------------------------------- states of the parts not running
SimOff ==
    /\ iterables = <<>> /\ time = 0 /\ gens = <<>> /\ pc = "off"
    /\ duration = None /\ idx = 0 /\ new_list = <<>> /\ events = <<>>
    /\ hist = <<>>
SigOff == sig = <<>> /\ edge = <<>>
ValOff == val = <<>> /\ op = <<>>
ShapeOff == arg = {} /\ res = <<>>

\* ------------------------------------------------- Shape.from_range, Value(x)
Ints == -MaxInt .. MaxInt
\* the argument sets: one integer, or two
ArgSets == {{a, b} : a \in Ints, b \in Ints}

InitShape ==
    /\ arg \in ArgSets
    /\ res = [call |-> "none"]
    /\ SimOff /\ SigOff /\ ValOff

\* Shape.from_range(arg)
FromRange ==
    /\ res.call = "none"
    /\ res' = [call |-> "from_range", out |-> from_range(arg)]
    /\ UNCHANGED <<arg, simVars, sigVars, valVars>>

\* Value(x) for a bare integer x, no shape given
NewValue ==
    /\ res.call = "none"
    /\ Cardinality(arg) = 1
    /\ \E x \in arg : res' = [call |-> "Value", x |-> x, out |-> Value(x, None)]
    /\ UNCHANGED <<arg, simVars, sigVars, valVars>>

NextShape == FromRange \/ NewValue
SpecShape == InitShape /\ [][NextShape]_vars

\* C9 as claimed: from_range returns, without error, a Shape whose range
\* contains every value of the set, and Value(x) built from a bare integer x
\* reads back as x.
C9_FromRangeContains ==
    /\ res.call = "from_range" =>
         /\ IsOk(res.out)
         /\ \A x \in arg : contains(res.out.val, x)
    /\ res.call = "Value" =>
         /\ IsOk(res.out)
         /\ value_of(res.out.val) = res.x

\* the number of bits of n >= 0: 1 for n in {0, 1}, else the w with
\* 2^(w-1) <= n < 2^w, that is floor(log2(n)) + 1
BitLength(n) ==
    CHOOSE w \in 1 .. n + 1 : n < Pow2(w) /\ (w = 1 \/ Pow2(w - 1) <= n)

Shapes == {Shape(s, n) : s \in BOOLEAN, n \in 1 .. MaxBits}
Values == UNION {{[_value |-> r, shape |-> sh] : r \in 0 .. modulo(sh) - 1} : sh \in Shapes}
\* the bounds written in v[high:low]: absent, or an integer around 0..n_bits
SliceBounds == {None} \cup {Some(k) : k \in -1 .. MaxBits + 1}
Keys ==
    {slice(h, l) : h \in SliceBounds, l \in SliceBounds}
    \cup {int_key(k) : k \in -1 .. MaxBits + 1}
Assigned == {IntArg(n) : n \in -MaxAssign .. MaxAssign} \cup {ValArg(v) : v \in Values}

\* the indices and bits handed to set_bit
BitKeys == -(MaxBits + 1) .. MaxBits
BitValues == -1 .. 2

InitValue ==
    /\ val \in Values
    /\ op = [kind |-> "none"]
    /\ SimOff /\ SigOff /\ ShapeOff

\* v[key] = value
SetItem ==
    /\ op.kind = "none"
    /\ \E key \in Keys, value \in Assigned :
         LET r == __setitem__(val, key, value)
         IN  /\ val' = IF IsOk(r) THEN r.val ELSE val
             /\ op' = [kind |-> "setitem", key |-> key, value |-> value,
                       before |-> val, exc |-> r.exc]
    /\ UNCHANGED <<simVars, sigVars, shapeVars>>

\* v[key]
GetItem ==
    /\ op.kind = "none"
    /\ \E key \in Keys :
         LET r == __getitem__(val, key)
         IN  op' = [kind |-> "getitem", key |-> key, before |-> val,
                    exc |-> r.exc, out |-> r]
    /\ UNCHANGED <<val, simVars, sigVars, shapeVars>>

\* the caller is done with the outcome and goes on to its next operation
NextOperation ==
    /\ op.kind # "none"
    /\ op' = [kind |-> "none"]
    /\ UNCHANGED <<val, simVars, sigVars, shapeVars>>

\* (a + b).as_shape(S), (a - b).as_shape(S), (a * b).as_shape(S) and
\* (a + (-a)).as_shape(S) for a second Value b of the shape S of a
Arith ==
    /\ op.kind = "none"
    /\ \E b \in {v \in Values : v.shape = val.shape} :
         op' = [kind |-> "arith", a |-> val, b |-> b,
                add |-> then_as_shape(Value_add(val, ValArg(b)), val.shape),
                sub |-> then_as_shape(Value_sub(val, b), val.shape),
                mul |-> then_as_shape(Value_mul(val, ValArg(b)), val.shape),
                zero |-> LET n == Value_neg(val)
                         IN  IF ~IsOk(n) THEN n
                             ELSE then_as_shape(Value_add(val, ValArg(n.val)), val.shape)]
    /\ UNCHANGED <<val, simVars, sigVars, shapeVars>>

\* v.rev() and v.rev().rev()
Rev ==
    /\ op.kind = "none"
    /\ LET r == rev(val)
       IN  op' = [kind |-> "rev", before |-> val, out |-> r,
                  back |-> IF ~IsOk(r) THEN r ELSE rev(r.val)]
    /\ UNCHANGED <<val, simVars, sigVars, shapeVars>>

\* v.set_value(value)
SetValue ==
    /\ op.kind = "none"
    /\ \E value \in Assigned :
         /\ val' = Value_set_value(val, value)
         /\ op' = [kind |-> "set_value", value |-> value, before |-> val, exc |-> "none"]
    /\ UNCHANGED <<simVars, sigVars, shapeVars>>

\* v.set_bit(key, value)
SetBit ==
    /\ op.kind = "none"
    /\ \E key \in BitKeys, value \in BitValues :
         LET r == set_bit(val, key, value)
         IN  /\ val' = IF IsOk(r) THEN r.val ELSE val
             /\ op' = [kind |-> "set_bit", key |-> key, value |-> value,
                       before |-> val, exc |-> r.exc]
    /\ UNCHANGED <<simVars, sigVars, shapeVars>>

NextValue == SetItem \/ GetItem \/ Arith \/ Rev \/ SetValue \/ SetBit \/ NextOperation
SpecValue == InitValue /\ [][NextValue]_vars

\* the bounds a key asks for, as v[high:low]
High(v, key) == IF key.start.isNone THEN v.shape.n_bits - 1 ELSE key.start.n
Low(v, key) == IF key.stop.isNone THEN 0 ELSE key.stop.n
ValidSlice(v, key) ==
    0 <= Low(v, key) /\ Low(v, key) <= High(v, key) /\ High(v, key) < v.shape.n_bits
\* the integer an assigned object stands for: the bare integer itself, or the
\* raw residue of an assigned Value
AssignedInt(value) == IF value.isInt THEN value.n ELSE value.v._value

\* C7 as claimed: after v[high:low] = x on a valid slice, v[high:low] is the
\* unsigned Value x mod 2^(high-low+1) of width high-low+1.
C7_SliceRoundTrip ==
    (/\ op.kind = "setitem"
     /\ op.exc = "none"
     /\ op.before \in Values
     /\ ValidSlice(op.before, op.key)) =>
        LET w == High(op.before, op.key) - Low(op.before, op.key) + 1
        IN  __getitem__(val, op.key) =
                Ok([_value |-> AssignedInt(op.value) % Pow2(w), shape |-> Unsigned(w)])

\* C8 as claimed: a slice or slice-assign with low > high, low < 0,
\* high >= n_bits or low >= n_bits is rejected with an error, and the Value is
\* left as it was.
C8_InvalidSliceRejected ==
    (/\ op.kind \in {"getitem", "setitem"}
     /\ op.before \in Values
     /\ ~ValidSlice(op.before, op.key)) =>
        /\ op.exc # "none"
        /\ val = op.before

\* x wrapped into the range of a shape modulo 2^n_bits
wrap(x, shape) == ((x - shape_min(shape)) % modulo(shape)) + shape_min(shape)

\* C11: for Values a, b of one shape S, (a + b), (a - b) and (a * b) taken
\* as_shape(S) are Values of shape S whose signed interpretation is
\* a.value + b.value, a.value - b.value, a.value * b.value wrapped into the
\* range of S modulo 2^n_bits, and (a + (-a)).as_shape(S) is 0.
C11_TwosComplement ==
    op.kind = "arith" =>
        LET S == op.a.shape
            x == value_of(op.a)
            y == value_of(op.b)
        IN  /\ IsOk(op.add) /\ IsOk(op.sub) /\ IsOk(op.mul) /\ IsOk(op.zero)
            /\ op.add.val.shape = S /\ op.sub.val.shape = S
            /\ op.mul.val.shape = S /\ op.zero.val.shape = S
            /\ value_of(op.add.val) = wrap(x + y, S)
            /\ value_of(op.sub.val) = wrap(x - y, S)
            /\ value_of(op.mul.val) = wrap(x * y, S)
            /\ value_of(op.zero.val) = 0

\* two negative Values of a signed shape whose sum, difference and product all
\* leave the range of the shape, after the three operations
C11_Witness ==
    /\ op.kind = "arith"
    /\ op.a.shape.signed
    /\ value_of(op.a) < 0 /\ value_of(op.b) < 0
    /\ ~contains(op.a.shape, value_of(op.a) + value_of(op.b))
    /\ ~contains(op.a.shape, value_of(op.a) * value_of(op.b))
    /\ value_of(op.add.val) = wrap(value_of(op.a) + value_of(op.b), op.a.shape)
    /\ value_of(op.sub.val) = value_of(op.a) - value_of(op.b)
    /\ value_of(op.sub.val) # value_of(op.add.val)

\* bit i of a non-negative integer
bit(n, i) == (n \div Pow2(i)) % 2

\* C12 as claimed: v.rev() is an unsigned Value whose bit i is bit n_bits-1-i
\* of v, with no bit at or above n_bits, and v.rev().rev() has the raw residue
\* of v.
C12_ReverseRoundTrip ==
    (op.kind = "rev" /\ op.before \in Values) =>
        LET n == op.before.shape.n_bits
        IN  /\ IsOk(op.out)
            /\ ~op.out.val.shape.signed
            /\ op.out.val._value < Pow2(n)
            /\ \A i \in 0 .. n - 1 :
                 bit(op.out.val._value, i) = bit(op.before._value, n - 1 - i)
            /\ IsOk(op.back)
            /\ op.back.val._value = op.before._value

\* C13 as claimed: after construction and after any sequence of set_value,
\* set_bit and slice assignments that raise no error, the raw residue of the
\* Value is in 0 .. 2^n_bits - 1 and its signed interpretation is in the range
\* of its shape.
C13_RawInRange ==
    /\ 0 <= val._value
    /\ val._value < Pow2(val.shape.n_bits)
    /\ contains(val.shape, value_of(val))

\* ------------------------------------------------- edges of a written Signal
EdgeTypes == {"POS", "NEG", "ANY"}

InitSignal ==
    /\ \E v \in 0 .. MaxSignalInit : sig = Signal(v, None, FALSE).val
    /\ edge = [kind |-> "none", has_previous |-> FALSE, previous |-> 0]
    /\ SimOff /\ ValOff /\ ShapeOff

\* signal.value = v.  The claim's previous is the raw residue before the write.
SignalWrite ==
    /\ \E v \in 0 .. MaxWrite :
         sig' = Signal_set_value(sig, IntArg(v))
    /\ edge' = [kind |-> "write", has_previous |-> TRUE, previous |-> sig._value._value]
    /\ UNCHANGED <<simVars, valVars, shapeVars>>

\* signal.posedge() / negedge() / anyedge()().  expected is what the claim
\* says the evaluation returns; afterwards the claim's previous is the raw
\* residue the evaluation saw.
EdgeEval ==
    /\ \E edge_type \in EdgeTypes :
         LET r == EdgeCond_call(sig, edge_type)
             diff == sig._value._value - edge.previous
         IN  /\ sig' = r.signal
             /\ edge' = [kind |-> "eval", edge_type |-> edge_type,
                         exc |-> r.exc, result |-> r.result,
                         defined |-> edge.has_previous,
                         last |-> edge.kind,
                         expected |-> IF edge_type = "POS" THEN diff > 0
                                      ELSE IF edge_type = "NEG" THEN diff < 0
                                      ELSE diff # 0,
                         has_previous |-> TRUE,
                         previous |-> sig._value._value]
    /\ UNCHANGED <<simVars, valVars, shapeVars>>

NextSignal == SignalWrite \/ EdgeEval
SpecSignal == InitSignal /\ [][NextSignal]_vars

\* C6 as claimed: after any writes and evaluations, an edge evaluation
\* returns true exactly when current.raw - previous is > 0 / < 0 / != 0,
\* previous being the raw residue before the most recent write or at the most
\* recent evaluation, whichever came last.
C6_EdgeMatchesDiff ==
    (edge.kind = "eval" /\ edge.defined) =>
        /\ edge.exc = "none"
        /\ edge.result = edge.expected

\* ------------------------------------------------------------ Simulator.run
\* the outputs of two generators that yield events: nested tuples and lists
\* of events that write the Signal, events that do not, and other objects
ScriptA ==
    << Seq_(<< Ev(1, Some(1)), Seq_(<< Obj(7), Ev(2, None) >>) >>),
       Obj(8),
       Ev(3, Some(0)) >>
ScriptB ==
    << Ev(4, Some(1)),
       Seq_(<< Ev(5, Some(0)), Obj(9) >>) >>

\* the generators a circuit is made of
Menu ==
    {clock(n) : n \in 1 .. MaxDelay}
    \cup {xtal(low, high) : low \in 1 .. MaxDelay, high \in 1 .. MaxDelay}
    \cup {script(delay(n)) : n \in 0 .. MaxDelay}
    \cup {script(ScriptA), script(ScriptB)}
\* three generators, the middle one a script that returns
Trios ==
    {<<clock(n), script(delay(m)), c>> : n \in 1 .. MaxDelay, m \in 0 .. MaxDelay, c \in Menu}
Circuits == {<<a>> : a \in Menu} \cup {<<a, b>> : a \in Menu, b \in Menu} \cup Trios
Durations == {None} \cup {Some(d) : d \in 0 .. MaxDuration}

\* Simulator(g1, [g2, ...]): what the constructor is given for a circuit
registered(circuit) ==
    IF Len(circuit) = 1 THEN <<Gen(1)>>
    ELSE <<Gen(1), Seq_([k \in 1 .. Len(circuit) - 1 |-> Gen(k + 1)])>>

\* Simulator.__init__: self.iterables = [*flatten(iterables, guard=Iterable)]
simulator_init(iterables_) ==
    LET flat == flatten(<<Seq_(iterables_)>>, "Iterable")
    IN  [k \in 1 .. Len(flat) |-> flat[k].id]

\* the ids of the events of an output, depth first and left to right
RECURSIVE Triggerables(_)
Triggerables(node) ==
    IF node.t = "ev" THEN <<node.id>>
    ELSE IF node.t = "seq" /\ node.items # <<>>
    THEN Triggerables(Head(node.items)) \o Triggerables(Seq_(Tail(node.items)))
    ELSE <<>>

\* whether an output holds an event whose trigger() writes the Signal
RECURSIVE HasWrite(_)
HasWrite(node) ==
    IF node.t = "ev" THEN ~node.write.isNone
    ELSE IF node.t = "seq" /\ node.items # <<>>
    THEN HasWrite(Head(node.items)) \/ HasWrite(Seq_(Tail(node.items)))
    ELSE FALSE

NoHistory(n) ==
    [rounds |-> 0, round_gens |-> <<>>, resumed |-> <<>>, captured |-> <<>>,
     triggered |-> <<>>, sig_at_start |-> 0, direct_write |-> FALSE,
     pending_write |-> FALSE, reads |-> <<>>,
     produced_run |-> <<>>, triggered_run |-> <<>>,
     resumes |-> [k \in 1 .. n |-> 0],
     completed |-> [k \in 1 .. n |-> 0], last_round |-> [k \in 1 .. n |-> 0]]

\* the history at the start of a round
RoundStart(h) ==
    [h EXCEPT !.rounds = @ + 1, !.round_gens = iterables, !.resumed = <<>>,
              !.captured = <<>>, !.triggered = <<>>,
              !.sig_at_start = Signal_get_value(sig),
              !.direct_write = FALSE, !.pending_write = FALSE, !.reads = <<>>]

\* sig = Signal(0); sim = Simulator(...)
Init ==
    /\ \E circuit \in Circuits :
         /\ gens = circuit
         /\ iterables = simulator_init(registered(circuit))
         /\ hist = NoHistory(Len(circuit))
    /\ time = 0
    /\ pc = "init"
    /\ duration = None
    /\ idx = 0 /\ new_list = <<>> /\ events = <<>>
    /\ sig = Signal(0, None, FALSE).val
    /\ edge = <<>>
    /\ ValOff /\ ShapeOff

\* sim.run(duration): self.time = 0
Run ==
    /\ pc = "init"
    /\ \E d \in Durations : duration' = d
    /\ time' = 0
    /\ pc' = "while"
    /\ UNCHANGED <<iterables, gens, idx, new_list, events, hist, sigVars, valVars, shapeVars>>

\* the loop goes on: events = self.next() begins.  A run without duration
\* is followed up to MaxTime ticks.
LoopEnter ==
    /\ pc = "while"
    /\ ~loop_done(duration, time)
    /\ duration.isNone => time < MaxTime
    /\ pc' = "next"
    /\ events' = <<>> /\ new_list' = <<>> /\ idx' = 1
    /\ hist' = RoundStart(hist)
    /\ UNCHANGED <<iterables, time, gens, duration, sigVars, valVars, shapeVars>>

\* break, then the self.next() after the loop begins
LoopBreak ==
    /\ pc = "while"
    /\ loop_done(duration, time)
    /\ pc' = "last_next"
    /\ events' = <<>> /\ new_list' = <<>> /\ idx' = 1
    /\ hist' = RoundStart(hist)
    /\ UNCHANGED <<iterables, time, gens, duration, sigVars, valVars, shapeVars>>

\* one pass of the for loop of Simulator.next
Resume ==
    /\ pc \in {"next", "last_next"}
    /\ idx <= Len(iterables)
    /\ LET id == iterables[idx]
           r == resume(gens[id], sig)
       IN  /\ gens' = [gens EXCEPT ![id] = r.gen]
           /\ sig' = signal_after_resume(sig, r)
           /\ events' = IF r.stop THEN events ELSE events_extend(events, r.results)
           /\ new_list' = new_list_append(new_list, id, r.stop)
           /\ hist' = [hist EXCEPT
                 !.resumed = Append(@, id),
                 !.resumes[id] = @ + 1,
                 !.last_round[id] = hist.rounds,
                 !.completed[id] = IF r.stop /\ @ = 0 THEN hist.rounds ELSE @,
                 !.captured = IF r.stop THEN @ ELSE Append(@, r.results),
                 !.produced_run = IF r.stop THEN @ ELSE @ \o Triggerables(r.results),
                 !.reads = IF r.read
                           THEN Append(@, [id |-> id, seen |-> r.seen,
                                           after_direct_write |-> hist.direct_write,
                                           pending_write |-> hist.pending_write])
                           ELSE @,
                 !.direct_write = @ \/ r.wrote,
                 !.pending_write = @ \/ (~r.stop /\ HasWrite(r.results))]
    /\ idx' = idx + 1
    /\ UNCHANGED <<iterables, time, pc, duration, edge, valVars, shapeVars>>

\* Simulator.next returns inside the loop: self.iterables = new_list; return events
NextReturn ==
    /\ pc = "next"
    /\ idx > Len(iterables)
    /\ iterables' = new_list
    /\ pc' = "trigger"
    /\ idx' = 1
    /\ UNCHANGED <<time, gens, duration, new_list, events, hist, sigVars, valVars, shapeVars>>

\* the self.next() after the loop returns; run drops what it returns
LastNextReturn ==
    /\ pc = "last_next"
    /\ idx > Len(iterables)
    /\ iterables' = new_list
    /\ pc' = "done"
    /\ events' = <<>>
    /\ UNCHANGED <<time, gens, duration, idx, new_list, hist, sigVars, valVars, shapeVars>>

\* one pass of for event in flatten(events): event.trigger()
Trigger ==
    /\ pc = "trigger"
    /\ idx <= Len(flatten_events(events))
    /\ LET event == flatten_events(events)[idx]
       IN  /\ sig' = trigger(event, sig)
           /\ hist' = [hist EXCEPT !.triggered = Append(@, event.id),
                                   !.triggered_run = Append(@, event.id)]
    /\ idx' = idx + 1
    /\ UNCHANGED <<iterables, time, gens, pc, duration, new_list, events, edge, valVars, shapeVars>>

\* self.time += 1
Tick ==
    /\ pc = "trigger"
    /\ idx > Len(flatten_events(events))
    /\ time' = time + 1
    /\ pc' = "while"
    /\ UNCHANGED <<iterables, gens, duration, idx, new_list, events, hist, sigVars, valVars, shapeVars>>

Next ==
    \/ Run \/ LoopEnter \/ LoopBreak \/ Resume
    \/ NextReturn \/ LastNextReturn \/ Trigger \/ Tick
Spec == Init /\ [][Next]_vars

\* the ids of the events of the outputs captured in a round, in order
RECURSIVE AllTriggerables(_)
AllTriggerables(outs) ==
    IF outs = <<>> THEN <<>>
    ELSE Triggerables(Head(outs)) \o AllTriggerables(Tail(outs))

\* C1: in every round of run's loop nothing is triggered until every active
\* task has been resumed once, in sequence order; then exactly the events
\* captured in the round are triggered, once each, in task order and depth
\* first left to right within a task's output; other outputs are dropped.
C1_ResumeAllThenTrigger ==
    /\ pc = "next" =>
         /\ hist.triggered = <<>>
         /\ hist.resumed = SubSeq(hist.round_gens, 1, idx - 1)
    /\ pc = "trigger" =>
         /\ hist.resumed = hist.round_gens
         /\ idx - 1 <= Len(AllTriggerables(hist.captured))
         /\ hist.triggered = SubSeq(AllTriggerables(hist.captured), 1, idx - 1)
    /\ (pc = "while" /\ hist.rounds > 0) =>
         /\ hist.resumed = hist.round_gens
         /\ hist.triggered = AllTriggerables(hist.captured)

\* C1 witness: a round of two tasks is over; the first yielded
\* (ev1, [obj, ev2]) and ev1, ev2 were triggered in that order
C1_Witness ==
    /\ pc = "while"
    /\ Len(hist.round_gens) = 2
    /\ hist.resumed = hist.round_gens
    /\ Len(hist.captured) = 2
    /\ hist.captured[1] = ScriptA[1]
    /\ hist.triggered = <<1, 2>>

\* C2 as claimed: run() without a duration returns once the active sequence
\* is empty: from the loop test with nothing active, run leaves the loop.
C2_RunReturnsWhenEmpty ==
    [][(pc = "while" /\ duration.isNone /\ iterables = <<>>)
           => pc' \in {"last_next", "done"}]_vars

\* C3 as claimed: when run returns, every event a task produced during the
\* run, the round after the loop included, has been triggered exactly once.
C3_AllOutputsTriggered ==
    pc = "done" => hist.triggered_run = hist.produced_run

\* C4: run(d) performs d + 1 rounds: a task that never completes is resumed
\* d + 1 times, time = d when run returns, and a task that suspends n times
\* before each action has performed floor(d / n) actions.
C4_RoundsOfRun ==
    (pc = "done" /\ ~duration.isNone) =>
        /\ time = duration.n
        /\ hist.rounds = duration.n + 1
        /\ \A id \in DOMAIN gens :
             gens[id].kind \in {"clock", "xtal"} =>
                 /\ hist.resumes[id] = duration.n + 1
                 /\ gens[id].kind = "clock" =>
                        gens[id].acts = duration.n \div gens[id].n

\* C4 witness: run(10) has returned and a clock with n = 2 acted 5 times
C4_Witness ==
    /\ pc = "done"
    /\ duration = Some(10)
    /\ time = 10
    /\ \E id \in DOMAIN gens :
         /\ gens[id].kind = "clock" /\ gens[id].n = 2
         /\ gens[id].acts = 5 /\ hist.resumes[id] = 11

\* C5 as claimed: every task resumed in a round reads the Signal value that
\* held before the round started.
C5_ReadsPreRoundValue ==
    \A k \in DOMAIN hist.reads : hist.reads[k].seen = hist.sig_at_start

\* C5 amended: a task resumed in a round reads the Signal value that held
\* before the round started unless a task resumed earlier in the same round
\* wrote the Signal in its own body; what the round's events write is not
\* visible before the trigger phase.
C5_ReadsPreRoundUnlessDirectWrite ==
    \A k \in DOMAIN hist.reads :
        ~hist.reads[k].after_direct_write => hist.reads[k].seen = hist.sig_at_start

\* C5 witness: in a round that started with the Signal at 1, a task has
\* yielded an event that writes 0 and a task resumed after it read 1
C5_Witness ==
    /\ pc = "next"
    /\ hist.sig_at_start = 1
    /\ Len(hist.captured) >= 1 /\ hist.captured[1] = ScriptB[2]
    /\ \E k \in DOMAIN hist.reads :
         /\ hist.reads[k].pending_write
         /\ ~hist.reads[k].after_direct_write
         /\ hist.reads[k].seen = 1

\* the generators of a sequence that have not signalled completion, in order
Survivors(its) == SelectSeq(its, LAMBDA id : hist.completed[id] = 0)

\* C14: a task that signalled completion in some round is not resumed in any
\* later round and is not in the active sequence once that round's next has
\* returned, and the active sequence after a round is the round's sequence
\* without the completed tasks, in the same order.
C14_CompletedRemovedOrderKept ==
    pc \in {"while", "next", "last_next", "trigger", "done"} =>
        /\ \A id \in 1 .. Len(gens) :
             hist.completed[id] > 0 =>
                 /\ hist.last_round[id] = hist.completed[id]
                 /\ hist.completed[id] < hist.rounds =>
                        \A k \in 1 .. Len(iterables) : iterables[k] # id
        /\ (pc \in {"while", "trigger", "done"} /\ hist.rounds > 0) =>
               iterables = Survivors(hist.round_gens)

\* of three tasks the middle one signalled completion in an earlier round, and
\* the two others were resumed in a later round and are the active sequence,
\* in their order
C14_Witness ==
    /\ pc = "trigger"
    /\ Len(gens) = 3
    /\ hist.completed[2] > 0
    /\ hist.completed[2] < hist.rounds
    /\ hist.completed[1] = 0 /\ hist.completed[3] = 0
    /\ hist.last_round[1] = hist.rounds /\ hist.last_round[3] = hist.rounds
    /\ hist.round_gens = <<1, 3>>
    /\ iterables = <<1, 3>>

====
